---- MODULE Spec2Model ----
(***************************************************************************)
(* Model of src/downloader.py (Farrenzo/llama).                            *)
(*                                                                         *)
(*   Spec         the download engine of download_files: one coroutine     *)
(*                _file_downloader per task, joined by asyncio.gather      *)
(*                inside asyncio.run.                                      *)
(*   SpecResolve  main_prompt's validation loop and the loop of            *)
(*                download_files that builds file_list from FILES.         *)
(*   SpecVerify   verify_md5: manifest parsing and the hashing loop.        *)
(***************************************************************************)
EXTENDS Integers, Sequences, FiniteSets, TLC

VARIABLES
    \* ---- download engine ----
    file_list,        \* the tasks of the batch (indices into the list)
    pc,               \* position of each _file_downloader coroutine
    err,              \* the exception a coroutine raised ("none" if none)
    response_status,  \* response.status (NoResponse before the headers)
    content_length,   \* response.content_length (None when absent)
    body_len,         \* number of bytes the server's body holds
    body_left,        \* bytes of the body not yet yielded by iter_chunked
    chunks,           \* lengths of the chunks written to local_file so far
    fs,               \* the destination file of each task
    fs0,              \* the destination file before the batch started
    description,      \* rich task description
    started,          \* rich task started flag (start_task)
    completed,        \* rich task completed counter
    total,            \* rich task total
    mainpc,           \* position of download_files itself
    \* ---- main_prompt / task list construction ----
    entry,            \* which function the caller entered
    models_list,      \* main_prompt: the names the user typed
    download_list,    \* the models argument of download_files
    rpc,              \* position in main_prompt / download_files
    idx,              \* loop index (models_list, then FILES.keys())
    built,            \* file_list under construction: <<model, file, path>>
    mkdirs,           \* directories main_prompt created
    raised,           \* the name a ValueError was raised for ("" if none)
    \* ---- verify_md5 ----
    check_files,      \* the paths of the manifests, in the order read
    manifest,         \* md_details of each manifest: its lines
    md_list,          \* ordered (file_path, md_origin) items
    disk,             \* what open/read of each target does
    vpc,              \* position in verify_md5
    vi,               \* index of the md_list item being processed
    md5_hash,         \* the local md5_hash (unbound before the first open)
    results           \* the lines printed so far

engineVars  == <<file_list, pc, err, response_status, content_length, body_len,
                 body_left, chunks, fs, fs0, description, started, completed,
                 total, mainpc>>
resolveVars == <<entry, models_list, download_list, rpc, idx, built, mkdirs,
                 raised>>
verifyVars  == <<check_files, manifest, md_list, disk, vpc, vi, md5_hash,
                 results>>
vars        == <<engineVars, resolveVars, verifyVars>>

(***************************************************************************)
(* Bounds                                                                  *)
(***************************************************************************)
MaxTasks  == 2      \* tasks in one batch
MaxChunks == 1      \* full chunks in one response body
TailLen   == 1000   \* length of a last, partial chunk
OldLen    == 7      \* size of a destination file left by an earlier run

(***************************************************************************)
(* Program constants                                                       *)
(***************************************************************************)
ChunkSize    == 1024   \* iter_chunked(1024)
QueuedTotal  == 100    \* add_task(total=100)
None         == -1     \* Python None for an absent Content-Length
NoResponse   == 0      \* no response headers yet

Min(a, b) == IF a < b THEN a ELSE b

RECURSIVE SumSeq(_)
SumSeq(s) == IF s = <<>> THEN 0 ELSE Head(s) + SumSeq(Tail(s))

\* The statuses a server is made to answer with: success, another 2xx, an error.
Statuses == {200, 206, 404}

\* Body sizes: empty, or up to MaxChunks full chunks and a last, partial one.
BodyLens == {0} \cup { k * ChunkSize + TailLen : k \in 0..MaxChunks }

AbsentFile  == [exists |-> FALSE, size |-> 0]
FileOf(n)   == [exists |-> TRUE, size |-> n]

(***************************************************************************)
(* Idle values of the variables a specification does not use               *)
(***************************************************************************)
EngineIdle ==
    /\ file_list = {}
    /\ pc = <<>> /\ err = <<>> /\ response_status = <<>>
    /\ content_length = <<>> /\ body_len = <<>> /\ body_left = <<>>
    /\ chunks = <<>> /\ fs = <<>> /\ fs0 = <<>> /\ description = <<>>
    /\ started = <<>> /\ completed = <<>> /\ total = <<>>
    /\ mainpc = "idle"

ResolveIdle ==
    /\ entry = "none" /\ models_list = <<>> /\ download_list = <<>>
    /\ rpc = "idle" /\ idx = 0 /\ built = <<>> /\ mkdirs = {} /\ raised = ""

VerifyIdle ==
    /\ check_files = <<>> /\ manifest = <<>>
    /\ md_list = <<>> /\ disk = <<>> /\ vpc = "idle" /\ vi = 0
    /\ md5_hash = <<>> /\ results = <<>>

(***************************************************************************)
(* Download engine: download_files lines 151-194, 221-222                  *)
(***************************************************************************)

\* A looser status test: every 2xx status taken as success.
IsSuccess_2xx(status) == status \in 200..299

\* line 163: if response.status == 200
IsSuccess(status) == status = 200

\* The counter advanced by the chunk size asked for, not the length read.
Advance_Fixed(done, data_len) == done + ChunkSize

\* The counter set to the chunk length (completed=) instead of advanced by it.
Advance_Set(done, data_len) == data_len

\* line 172-174: progress.update(task, advance=len(data))
Advance(done, data_len) == done + data_len

\* line 165-168: progress.update(task, total=f_size); rich keeps the old
\* total when the new one is None
UpdateTotal(old, f_size) == IF f_size = None THEN old ELSE f_size

\* The status of the Download Task as the code exposes it: the terminal
\* descriptions of lines 177 and 185, else whether the coroutine has begun.
StatusOf(desc, p) ==
    IF desc = "Finished" THEN "Finished"
    ELSE IF desc = "Unable to download" THEN "Failed"
    ELSE IF p = "queued" THEN "Queued"
    ELSE "InProgress"

Status(t) == StatusOf(description[t], pc[t])

\* asyncio runs the first step of every coroutine handed to gather before
\* any I/O completion is delivered.
AllBegun == \A u \in file_list : pc[u] # "queued"

\* State after lines 196-220: every task added with add_task(start=False),
\* and asyncio.run about to start the coroutines.
InitEngine ==
    /\ \E n \in 1..MaxTasks : file_list = 1..n
    /\ pc = [t \in file_list |-> "queued"]
    /\ err = [t \in file_list |-> "none"]
    /\ response_status = [t \in file_list |-> NoResponse]
    /\ content_length = [t \in file_list |-> None]
    /\ body_len = [t \in file_list |-> 0]
    /\ body_left = [t \in file_list |-> 0]
    /\ chunks = [t \in file_list |-> <<>>]
    /\ \E f \in {AbsentFile, FileOf(OldLen)} : fs0 = [t \in file_list |-> f]
    /\ fs = fs0
    /\ description = [t \in file_list |-> "Queued"]
    /\ started = [t \in file_list |-> FALSE]
    /\ completed = [t \in file_list |-> 0]
    /\ total = [t \in file_list |-> QueuedTotal]
    /\ mainpc = "running"

\* The semaphore of line 160 put back, with a single slot: a coroutine starts
\* its transfer only when no other transfer is under way.
Begin_OneAtATime(t) ==
    /\ mainpc = "running"
    /\ pc[t] = "queued"
    /\ \A u \in file_list : pc[u] \in {"queued", "done", "raised", "cancelled"}
    /\ pc' = [pc EXCEPT ![t] = "get"]
    /\ UNCHANGED <<file_list, err, response_status, content_length, body_len,
                   body_left, chunks, fs, fs0, description, started,
                   completed, total, mainpc>>
    /\ UNCHANGED <<resolveVars, verifyVars>>

\* lines 151-161: the coroutine starts, creates its session and issues the GET
Begin(t) ==
    /\ mainpc = "running"
    /\ pc[t] = "queued"
    /\ pc' = [pc EXCEPT ![t] = "get"]
    /\ UNCHANGED <<file_list, err, response_status, content_length, body_len,
                   body_left, chunks, fs, fs0, description, started,
                   completed, total, mainpc>>
    /\ UNCHANGED <<resolveVars, verifyVars>>

\* line 161: session.get returns the response
Respond(t) ==
    /\ mainpc = "running"
    /\ pc[t] = "get"
    /\ AllBegun
    /\ \E s \in Statuses : response_status' = [response_status EXCEPT ![t] = s]
    /\ pc' = [pc EXCEPT ![t] = "open"]
    /\ UNCHANGED <<file_list, err, content_length, body_len, body_left, chunks,
                   fs, fs0, description, started, completed, total, mainpc>>
    /\ UNCHANGED <<resolveVars, verifyVars>>

\* line 162: aiofiles.open(file_path, "wb") creates or truncates the file;
\* lines 163-169 or 181-185 follow without a suspension point.  The body and
\* its Content-Length are read by the success branch only (line 164), so they
\* are drawn there: with a Content-Length the HTTP framing makes the body
\* hold exactly that many bytes.
OpenFile(t) ==
    /\ mainpc = "running"
    /\ pc[t] = "open"
    /\ fs' = [fs EXCEPT ![t] = FileOf(0)]
    /\ IF IsSuccess(response_status[t])
       THEN \E len \in BodyLens, hasLength \in BOOLEAN :
            LET f_size == IF hasLength THEN len ELSE None IN
            /\ content_length' = [content_length EXCEPT ![t] = f_size]
            /\ body_len' = [body_len EXCEPT ![t] = len]
            /\ body_left' = [body_left EXCEPT ![t] = len]
            /\ total' = [total EXCEPT ![t] = UpdateTotal(total[t], f_size)]
            /\ started' = [started EXCEPT ![t] = TRUE]
            /\ pc' = [pc EXCEPT ![t] = "stream"]
       ELSE /\ pc' = [pc EXCEPT ![t] = "closing"]
            /\ UNCHANGED <<content_length, body_len, body_left, total, started>>
    /\ UNCHANGED <<file_list, err, response_status, chunks, fs0, description,
                   completed, mainpc>>
    /\ UNCHANGED <<resolveVars, verifyVars>>

\* lines 170-176: one chunk of at most 1024 bytes is read, written to the
\* file and added to the progress counter
Chunk(t) ==
    /\ mainpc = "running"
    /\ pc[t] = "stream"
    /\ body_left[t] > 0
    /\ LET data_len == Min(ChunkSize, body_left[t]) IN
         /\ body_left' = [body_left EXCEPT ![t] = @ - data_len]
         /\ fs' = [fs EXCEPT ![t] = FileOf(@.size + data_len)]
         /\ chunks' = [chunks EXCEPT ![t] = Append(@, data_len)]
         /\ completed' = [completed EXCEPT ![t] = Advance(@, data_len)]
    /\ description' = [description EXCEPT ![t] = "Downloading"]
    /\ UNCHANGED <<file_list, pc, err, response_status, content_length,
                   body_len, fs0, started, total, mainpc>>
    /\ UNCHANGED <<resolveVars, verifyVars>>

\* lines 170, 177-180: the body is exhausted
EndOfBody(t) ==
    /\ mainpc = "running"
    /\ pc[t] = "stream"
    /\ body_left[t] = 0
    /\ pc' = [pc EXCEPT ![t] = "closing"]
    /\ UNCHANGED <<file_list, err, response_status, content_length, body_len,
                   body_left, chunks, fs, fs0, description, started,
                   completed, total, mainpc>>
    /\ UNCHANGED <<resolveVars, verifyVars>>

\* lines 177, 185, 186-189: the context managers are left and the final
\* description is set
Finish(t) ==
    /\ mainpc = "running"
    /\ pc[t] = "closing"
    /\ description' = [description EXCEPT
                         ![t] = IF IsSuccess(response_status[t])
                                THEN "Finished" ELSE "Unable to download"]
    /\ pc' = [pc EXCEPT ![t] = "done"]
    /\ UNCHANGED <<file_list, err, response_status, content_length, body_len,
                   body_left, chunks, fs, fs0, started, completed, total,
                   mainpc>>
    /\ UNCHANGED <<resolveVars, verifyVars>>

\* The errors each await of lines 160-176 can raise.  _file_downloader has no
\* try/except, so the exception ends the coroutine.
ErrorsAt(p, left) ==
    CASE p = "get"     -> {"ClientConnectionError"}
      [] p = "open"    -> {"OSError(open)"}
      [] p = "stream"  -> IF left > 0 THEN {"ClientPayloadError", "OSError(write)"}
                          ELSE {}
      [] p = "closing" -> {"OSError(close)"}
      [] OTHER         -> {}

Raise(t) ==
    /\ mainpc = "running"
    /\ AllBegun
    /\ \E e \in ErrorsAt(pc[t], body_left[t]) :
         err' = [err EXCEPT ![t] = e]
    /\ pc' = [pc EXCEPT ![t] = "raised"]
    /\ UNCHANGED <<file_list, response_status, content_length, body_len,
                   body_left, chunks, fs, fs0, description, started,
                   completed, total, mainpc>>
    /\ UNCHANGED <<resolveVars, verifyVars>>

\* lines 192-194, 221: gather (return_exceptions left False) hands the first
\* exception to _download; asyncio.run then cancels every task still pending
\* and re-raises, so download_files raises.
CancelPending(p) == IF p \in {"done", "raised"} THEN p ELSE "cancelled"

GatherRaise ==
    /\ mainpc = "running"
    /\ \E t \in file_list : pc[t] = "raised"
    /\ pc' = [t \in file_list |-> CancelPending(pc[t])]
    /\ mainpc' = "raised"
    /\ UNCHANGED <<file_list, err, response_status, content_length, body_len,
                   body_left, chunks, fs, fs0, description, started,
                   completed, total>>
    /\ UNCHANGED <<resolveVars, verifyVars>>

\* download_files returning as soon as one coroutine has returned.
Return_Early ==
    /\ mainpc = "running"
    /\ \E t \in file_list : pc[t] = "done"
    /\ mainpc' = "returned"
    /\ UNCHANGED <<file_list, pc, err, response_status, content_length,
                   body_len, body_left, chunks, fs, fs0, description, started,
                   completed, total>>
    /\ UNCHANGED <<resolveVars, verifyVars>>

\* lines 221-222: every coroutine returned; download_files returns file_list
Return ==
    /\ mainpc = "running"
    /\ \A t \in file_list : pc[t] = "done"
    /\ mainpc' = "returned"
    /\ UNCHANGED <<file_list, pc, err, response_status, content_length,
                   body_len, body_left, chunks, fs, fs0, description, started,
                   completed, total>>
    /\ UNCHANGED <<resolveVars, verifyVars>>

Init == InitEngine /\ ResolveIdle /\ VerifyIdle

Next ==
    \/ \E t \in file_list : Begin(t)
    \/ \E t \in file_list : Respond(t)
    \/ \E t \in file_list : OpenFile(t)
    \/ \E t \in file_list : Chunk(t)
    \/ \E t \in file_list : EndOfBody(t)
    \/ \E t \in file_list : Finish(t)
    \/ \E t \in file_list : Raise(t)
    \/ GatherRaise
    \/ Return

Spec == Init /\ [][Next]_vars

(***************************************************************************)
(* Properties of the download engine (specification Spec)                  *)
(***************************************************************************)
Terminal == {"Finished", "Failed"}

\* C1 (as claimed): the failure of one task never cancels another task, and
\* once download_files is over every task that did not fail itself has run
\* its coroutine to the end.
C1_FailureIsolation ==
    /\ \A t \in file_list : pc[t] # "cancelled"
    /\ mainpc # "running" =>
         \A t \in file_list : pc[t] # "raised" => pc[t] = "done"

\* C2 (as claimed): an error raised in a task's transfer turns that task
\* Failed, and download_files never raises because of it.
C2_ErrorsContained ==
    /\ \A t \in file_list : err[t] # "none" => Status(t) = "Failed"
    /\ mainpc # "raised"

\* C3 (as claimed): download_files is over (returned or raised) only when
\* every task of the batch is Finished or Failed.
C3_Barrier ==
    mainpc \in {"returned", "raised"} =>
        \A t \in file_list : Status(t) \in Terminal

\* C4 (as claimed): a task whose response has a non-2xx status leaves its
\* destination file as it was before the batch, and ends Failed.
C4_Non2xxLeavesFile ==
    \A t \in file_list :
        (response_status[t] # NoResponse /\ response_status[t] \notin 200..299) =>
            /\ fs[t] = fs0[t]
            /\ pc[t] = "done" => Status(t) = "Failed"

\* C5 (as claimed): a task that has run to its end is Finished exactly when
\* its response status is in 200..299, and Failed otherwise.
C5_Every2xxIsSuccess ==
    \A t \in file_list :
        pc[t] = "done" =>
            /\ response_status[t] \in 200..299 => Status(t) = "Finished"
            /\ response_status[t] \notin 200..299 => Status(t) = "Failed"

\* C5 (amended): only status 200 is success.  A task is Finished only if its
\* status is 200 and its whole body is in the destination file; a task with
\* any other status (201..299 included) has no byte streamed, and is Failed
\* once its coroutine has run to its end.
C5_Only200IsSuccess ==
    \A t \in file_list :
        /\ Status(t) = "Finished" =>
             response_status[t] = 200 /\ fs[t] = FileOf(body_len[t])
        /\ Status(t) = "Failed" => response_status[t] # 200
        /\ response_status[t] \notin {NoResponse, 200} =>
             /\ chunks[t] = <<>> /\ completed[t] = 0 /\ ~started[t]
             /\ pc[t] = "done" => Status(t) = "Failed"
        /\ (response_status[t] = 200 /\ pc[t] = "done") => Status(t) = "Finished"

\* C5 witness: one task ended Finished on a 200 with a body, another ended
\* Failed on a 206.
C5_Witness ==
    \E t, u \in file_list :
        /\ pc[t] = "done" /\ response_status[t] = 200 /\ body_len[t] > 0
        /\ pc[u] = "done" /\ response_status[u] = 206

\* C8: for every Finished task the progress counter equals the sum of the
\* lengths of the chunks written to its file, and equals Content-Length
\* whenever the header is present.
C8_BytesAtFinished ==
    \A t \in file_list :
        Status(t) = "Finished" =>
            /\ completed[t] = SumSeq(chunks[t])
            /\ completed[t] = fs[t].size
            /\ content_length[t] # None => completed[t] = content_length[t]

\* C8 witness: a Finished task with a Content-Length whose body took several
\* chunks, the last one partial.
C8_Witness ==
    \E t \in file_list :
        /\ Status(t) = "Finished"
        /\ content_length[t] # None
        /\ Len(chunks[t]) >= 2
        /\ chunks[t][Len(chunks[t])] < ChunkSize

\* C9: per step a task's status only moves Queued -> InProgress ->
\* Finished | Failed (InProgress may repeat); a Finished or Failed task keeps
\* its status, byte count and total; the byte count never decreases.
C9_TaskStep(t) ==
    LET old == Status(t)
        new == StatusOf(description'[t], pc'[t])
    IN  /\ <<old, new>> \in {<<"Queued", "Queued">>,
                            <<"Queued", "InProgress">>,
                            <<"InProgress", "InProgress">>,
                            <<"InProgress", "Finished">>,
                            <<"InProgress", "Failed">>,
                            <<"Finished", "Finished">>,
                            <<"Failed", "Failed">>}
        /\ old \in Terminal =>
             /\ completed'[t] = completed[t]
             /\ total'[t] = total[t]
        /\ completed'[t] >= completed[t]

C9_TaskStateMachine ==
    [][\A t \in file_list : C9_TaskStep(t)]_vars

\* C9 witness: one task is Finished after several chunks while another task
\* of the batch is Failed.
C9_Witness ==
    \E t, u \in file_list :
        /\ Status(t) = "Finished" /\ Len(chunks[t]) >= 2
        /\ Status(u) = "Failed"

\* C13 (as claimed): a task is reported Started before any Advanced report,
\* and once download_files is over every task of the batch has had its
\* terminal report (Finished or Unable to download), whatever the outcome of
\* its transfer.
C13_Reporting ==
    \A t \in file_list :
        /\ chunks[t] # <<>> => started[t]
        /\ description[t] = "Downloading" => started[t]
        /\ mainpc # "running" =>
              description[t] \in {"Finished", "Unable to download"}

\* C18: no cap on concurrency.  A queued task can begin its transfer in every
\* state of a running batch, whatever the other tasks are doing.
C18_NoConcurrencyCap ==
    \A t \in file_list :
        (mainpc = "running" /\ pc[t] = "queued") => ENABLED Begin(t)

\* C18 witness: a batch of at least two tasks, all of them streaming their
\* bodies at the same time.
C18_Witness ==
    /\ Cardinality(file_list) >= 2
    /\ \A t \in file_list : pc[t] = "stream" /\ completed[t] > 0 /\ body_left[t] > 0

(***************************************************************************)
(* Manifest catalog and task list: FILES, user_entry, main_prompt lines    *)
(* 235-249, download_files lines 201-222                                   *)
(***************************************************************************)
MaxReq == 2    \* names in one request

Shards2  == <<"consolidated.00.pth", "consolidated.01.pth">>
Shards8  == <<"consolidated.00.pth", "consolidated.01.pth",
              "consolidated.02.pth", "consolidated.03.pth",
              "consolidated.04.pth", "consolidated.05.pth",
              "consolidated.06.pth", "consolidated.07.pth">>
Common   == <<"params.json", "checklist.chk">>

\* lines 21-74, in the dict's insertion order
FILES ==
    << [name |-> ".",
        files |-> <<"LICENSE", "USE_POLICY.md", "tokenizer.model",
                    "tokenizer_checklist.chk">>],
       [name |-> "llama-2-7b",       files |-> <<"consolidated.00.pth">> \o Common],
       [name |-> "llama-2-7b-chat",  files |-> <<"consolidated.00.pth">> \o Common],
       [name |-> "llama-2-13b",      files |-> Shards2 \o Common],
       [name |-> "llama-2-13b-chat", files |-> Shards2 \o Common],
       [name |-> "llama-2-70b",      files |-> Shards8 \o Common],
       [name |-> "llama-2-70b-chat", files |-> Shards8 \o Common] >>

\* lines 92-99, keys in insertion order and the mapping
user_entry_keys == <<"7B", "13B", "70B", "7B-chat", "13B-chat", "70B-chat">>

user_entry ==
    [k \in {"7B", "13B", "70B", "7B-chat", "13B-chat", "70B-chat"} |->
        CASE k = "7B"       -> "llama-2-7b"
          [] k = "13B"      -> "llama-2-13b"
          [] k = "70B"      -> "llama-2-70b"
          [] k = "7B-chat"  -> "llama-2-7b-chat"
          [] k = "13B-chat" -> "llama-2-13b-chat"
          [] k = "70B-chat" -> "llama-2-70b-chat"]

Range(sq) == { sq[i] : i \in 1..Len(sq) }

GroupNames == { FILES[i].name : i \in 1..Len(FILES) }

\* a name that is neither a key of user_entry nor a key of FILES
Unknown == "bogus"

SeqsUpTo(S, n) == UNION { [1..k -> S] : k \in 0..n }

\* what a user can type: keys of user_entry, a catalog name, an unknown name
TypedNames == DOMAIN user_entry \cup {"llama-2-7b", Unknown}
\* what a caller can pass to download_files
PassedNames == GroupNames \cup {Unknown}

\* Root keeps getting resolved although the request does not name it.
Selected_RootAlways(models, model) == model = "." \/ model \in Range(models)

\* line 203: if model in models
Selected(models, model) == model \in Range(models)

\* Every file placed at the destination root, whatever its group.
FilePath_NoGroup(model, file) == <<"base_path", file>>

\* lines 205-208: f"{base_path}/{file}" or f"{base_path}/{model}/{file}"
FilePath(model, file) ==
    IF model = "." THEN <<"base_path", file>> ELSE <<"base_path", model, file>>

\* lines 204-220: the FileInfo of every file of one group; count is the
\* number of progress tasks added before (add_task numbers them in order)
GroupTasks(model, files, count) ==
    [k \in 1..Len(files) |->
        [file_url      |-> <<model, files[k]>>,
         file_name     |-> files[k],
         file_path     |-> FilePath(model, files[k]),
         progress_task |-> count + k - 1]]

InitResolve ==
    /\ entry \in {"main_prompt", "download_files"}
    /\ IF entry = "main_prompt"
       THEN /\ models_list \in {user_entry_keys}
                                \cup (SeqsUpTo(TypedNames, MaxReq) \ {<<>>})
            /\ download_list = <<".">>
            /\ rpc = "validate"
       ELSE /\ models_list = <<>>
            /\ download_list \in SeqsUpTo(PassedNames, MaxReq)
            /\ rpc = "build"
    /\ idx = 1
    /\ built = <<>>
    /\ mkdirs = {}
    /\ raised = ""

\* The loop goes on after a name that is not available instead of raising.
Validate_Skip ==
    /\ rpc = "validate"
    /\ idx <= Len(models_list)
    /\ LET model == models_list[idx] IN
         IF model \notin DOMAIN user_entry
         THEN UNCHANGED <<download_list, mkdirs>>
         ELSE /\ download_list' = Append(download_list, user_entry[model])
              /\ mkdirs' = mkdirs \cup {user_entry[model]}
    /\ idx' = idx + 1
    /\ UNCHANGED <<entry, models_list, built, rpc, raised>>
    /\ UNCHANGED <<engineVars, verifyVars>>

\* main_prompt lines 241-247: one iteration of the validation loop
Validate ==
    /\ rpc = "validate"
    /\ idx <= Len(models_list)
    /\ LET model == models_list[idx] IN
         IF model \notin DOMAIN user_entry
         THEN /\ raised' = model
              /\ rpc' = "error"
              /\ UNCHANGED <<download_list, mkdirs, idx>>
         ELSE /\ download_list' = Append(download_list, user_entry[model])
              /\ mkdirs' = mkdirs \cup {user_entry[model]}
              /\ idx' = idx + 1
              /\ UNCHANGED <<rpc, raised>>
    /\ UNCHANGED <<entry, models_list, built>>
    /\ UNCHANGED <<engineVars, verifyVars>>

\* main_prompt line 249: download_files(download_list, url, base)
CallDownload ==
    /\ rpc = "validate"
    /\ idx > Len(models_list)
    /\ rpc' = "build"
    /\ idx' = 1
    /\ UNCHANGED <<entry, models_list, download_list, built, mkdirs, raised>>
    /\ UNCHANGED <<engineVars, verifyVars>>

\* The groups visited from the last one declared to the first.
GroupAt_Backwards(i) == FILES[Len(FILES) + 1 - i]

\* line 202: for model in FILES.keys(): the i-th group in declaration order
GroupAt(i) == FILES[i]

\* download_files lines 202-220: one iteration of the loop over FILES.keys()
BuildGroup ==
    /\ rpc = "build"
    /\ idx <= Len(FILES)
    /\ built' = IF Selected(download_list, GroupAt(idx).name)
                THEN built \o GroupTasks(GroupAt(idx).name, GroupAt(idx).files,
                                         Len(built))
                ELSE built
    /\ idx' = idx + 1
    /\ UNCHANGED <<entry, models_list, download_list, rpc, mkdirs, raised>>
    /\ UNCHANGED <<engineVars, verifyVars>>

\* download_files line 221: asyncio.run(_download(progress, file_list))
RunDownload ==
    /\ rpc = "build"
    /\ idx > Len(FILES)
    /\ rpc' = "download"
    /\ UNCHANGED <<entry, models_list, download_list, idx, built, mkdirs, raised>>
    /\ UNCHANGED <<engineVars, verifyVars>>

\* download_files line 222: return file_list
ReturnList ==
    /\ rpc = "download"
    /\ rpc' = "returned"
    /\ UNCHANGED <<entry, models_list, download_list, idx, built, mkdirs, raised>>
    /\ UNCHANGED <<engineVars, verifyVars>>

NextResolve ==
    \/ Validate
    \/ CallDownload
    \/ BuildGroup
    \/ RunDownload
    \/ ReturnList

InitOfResolve == EngineIdle /\ InitResolve /\ VerifyIdle

SpecResolve == InitOfResolve /\ [][NextResolve]_vars

(***************************************************************************)
(* Properties of the task list (specification SpecResolve)                 *)
(***************************************************************************)
\* the (group, file) pairs of the tasks built so far
BuiltPairs == { built[i].file_url : i \in 1..Len(built) }

\* the (group, file) pairs the catalog declares for the groups in S
Declared(S) ==
    UNION { { <<FILES[i].name, FILES[i].files[k]>> :
                k \in 1..Len(FILES[i].files) } :
            i \in { j \in 1..Len(FILES) : FILES[j].name \in S } }

ListBuilt == rpc \in {"download", "returned"}

\* C6 (as claimed): the task list holds the root group's files, also when
\* "." is not requested, plus exactly the files declared for each requested
\* name, each pair once.
C6_RootAlwaysResolved ==
    ListBuilt =>
        /\ BuiltPairs = Declared({"."} \cup Range(download_list))
        /\ Len(built) = Cardinality(BuiltPairs)

\* C6 (amended): the task list of download_files holds exactly the files the
\* catalog declares for the requested names, each (group, file) pair once
\* also when a name is repeated, and nothing for a group that was not
\* requested; the root group's files are in it only when "." is among the
\* requested names, which main_prompt always passes first.
C6_ExactlyRequested ==
    /\ ListBuilt =>
         /\ BuiltPairs = Declared(Range(download_list))
         /\ Len(built) = Cardinality(BuiltPairs)
         /\ \A i \in 1..Len(built) : built[i].file_url[1] \in Range(download_list)
    /\ entry = "main_prompt" => Len(download_list) >= 1 /\ download_list[1] = "."

\* C6 witness: download_files was called with a repeated group name and
\* without ".", and returned a list that is not empty.
C6_Witness ==
    /\ rpc = "returned"
    /\ entry = "download_files"
    /\ Len(download_list) = 2 /\ download_list[1] = download_list[2]
    /\ "." \notin Range(download_list)
    /\ built # <<>>

\* the request holds a name the function entered does not know
HasUnknownName ==
    \/ entry = "main_prompt" /\ \E i \in 1..Len(models_list) :
                                    models_list[i] \notin DOMAIN user_entry
    \/ entry = "download_files" /\ \E i \in 1..Len(download_list) :
                                    download_list[i] \notin GroupNames

\* C7 (as claimed): with an unknown name in the request, in main_prompt or in
\* download_files, no task is created and no transfer is started.
C7_UnknownGroupAborts ==
    HasUnknownName => built = <<>> /\ rpc \notin {"download", "returned"}

\* C7 (amended): in main_prompt a typed name that is not a key of user_entry
\* raises a ValueError naming it, before any task is created or any transfer
\* started; download_files itself raises nothing for a name that is not a
\* catalog key: it builds no task for it and goes on to the download.
C7_UnknownNameInMainPrompt ==
    /\ (entry = "main_prompt" /\ HasUnknownName) =>
          /\ built = <<>>
          /\ rpc \in {"validate", "error"}
    /\ rpc = "error" =>
          /\ entry = "main_prompt"
          /\ raised = models_list[idx]
          /\ raised \notin DOMAIN user_entry
          /\ \A i \in 1..(idx - 1) : models_list[i] \in DOMAIN user_entry
    /\ entry = "download_files" =>
          /\ raised = "" /\ rpc # "error"
          /\ \A i \in 1..Len(built) : built[i].file_url[1] \in GroupNames

\* C7 witness: main_prompt raised for the unknown name after it had accepted
\* (and made the directory of) an earlier name.
C7_Witness ==
    /\ rpc = "error"
    /\ raised = Unknown
    /\ mkdirs # {}
    /\ built = <<>>

\* position of a task's (group, file) pair in the catalog: the number of
\* files declared before it
GroupIndex(name) == CHOOSE i \in 1..Len(FILES) : FILES[i].name = name
FileIndex(name, file) ==
    CHOOSE k \in 1..Len(FILES[GroupIndex(name)].files) :
        FILES[GroupIndex(name)].files[k] = file
CatalogPos(info) ==
    GroupIndex(info.file_url[1]) * 100 + FileIndex(info.file_url[1], info.file_url[2])

\* C14: the task list is in the catalog's declaration order (groups in the
\* order of FILES, files in each group's listed order), so it depends on the
\* set of requested names only, not on their order.
C14_CatalogOrder ==
    /\ \A i, j \in 1..Len(built) : i < j => CatalogPos(built[i]) < CatalogPos(built[j])
    /\ ListBuilt => BuiltPairs = Declared(Range(download_list))

\* C14 witness: main_prompt was given 13B before 7B and the list was returned.
C14_Witness ==
    /\ rpc = "returned"
    /\ entry = "main_prompt"
    /\ models_list = <<"13B", "7B">>
    /\ Len(built) = 11

\* C20: the tasks built have pairwise distinct destination paths and
\* pairwise distinct progress handles.
C20_DistinctTargets ==
    \A i, j \in 1..Len(built) :
        i # j => /\ built[i].file_path # built[j].file_path
                 /\ built[i].progress_task # built[j].progress_task

\* C20 witness: a returned list with two groups that declare the same file
\* names.
C20_Witness ==
    /\ rpc = "returned"
    /\ \E i, j \in 1..Len(built) :
          /\ built[i].file_name = built[j].file_name
          /\ built[i].file_url[1] = "llama-2-7b"
          /\ built[j].file_url[1] = "llama-2-7b-chat"

(***************************************************************************)
(* verify_md5, lines 110-147: manifest parsing and the hashing loop        *)
(***************************************************************************)
MaxTargets    == 2    \* manifest lines read in one call
MaxFileChunks == 1    \* 4096-byte chunks in one target file

\* Strings are sequences of characters.

\* the possible contents of one 4096-byte chunk
Blocks == {"a", "b"}

\* file contents, as the sequence of chunks f.read(4096) returns
Contents == SeqsUpTo(Blocks, MaxFileChunks)

\* hashlib.md5(...).hexdigest(): lower-case hex text determined by the bytes
\* fed; different inputs are taken to have different digests
HexDigest(fed) == <<"d">> \o fed

\* the same hex value written in upper case
UpperChar(c) ==
    CASE c = "a" -> "A" [] c = "b" -> "B" [] c = "d" -> "D" [] OTHER -> c
Upper(str) == [i \in 1..Len(str) |-> UpperChar(str[i])]

Max(a, b) == IF a > b THEN a ELSE b

\* str.rfind(pat): 0-based index of the last occurrence, -1 when there is none
RECURSIVE RFindFrom(_, _, _)
RFindFrom(str, pat, i) ==
    IF i < 0 THEN -1
    ELSE IF SubSeq(str, i + 1, i + Len(pat)) = pat THEN i
    ELSE RFindFrom(str, pat, i - 1)

RFind(str, pat) == RFindFrom(str, pat, Len(str) - Len(pat))

\* str[:i] and str[i:] with Python's meaning of a negative index
SliceTo(str, i) ==
    IF i >= 0 THEN SubSeq(str, 1, Min(i, Len(str)))
    ELSE SubSeq(str, 1, Max(Len(str) + i, 0))

SliceFrom(str, i) ==
    IF i >= 0 THEN SubSeq(str, i + 1, Len(str))
    ELSE SubSeq(str, Max(Len(str) + i, 0) + 1, Len(str))

\* line 112: file.replace("\\", "/")
ReplaceBackslash(str) ==
    [i \in 1..Len(str) |-> IF str[i] = "\\" THEN "/" ELSE str[i]]

TwoSpaces == <<" ", " ">>
Slash     == <<"/">>

\* line 115: path = file[:file.rfind("/")]
ManifestDir(file) == SliceTo(file, RFind(file, Slash))

\* line 118: file_name = md[:md.rfind("  ")]
LineDigest(md) == SliceTo(md, RFind(md, TwoSpaces))

\* line 119: file_path = f"{path}/{md[md.rfind('  ') + 2:]}"
LinePath(path, md) == path \o Slash \o SliceFrom(md, RFind(md, TwoSpaces) + 2)

\* An existing key keeps the digest it got first.
DictSet_KeepFirst(d, key, value) ==
    IF \E i \in 1..Len(d) : d[i].file_path = key
    THEN d
    ELSE Append(d, [file_path |-> key, md_origin |-> value])

\* line 120: md_list[file_path] = file_name; a dict keeps a key's position
\* and replaces its value
DictSet(d, key, value) ==
    IF \E i \in 1..Len(d) : d[i].file_path = key
    THEN [i \in 1..Len(d) |->
            IF d[i].file_path = key
            THEN [file_path |-> key, md_origin |-> value] ELSE d[i]]
    ELSE Append(d, [file_path |-> key, md_origin |-> value])

\* A line without the separator is left out.
RecordLine_SkipMalformed(d, path, md) ==
    IF Len(md) > 0 /\ RFind(md, TwoSpaces) >= 0
    THEN DictSet(d, LinePath(path, md), LineDigest(md))
    ELSE d

\* lines 117-120: one line of a manifest
RecordLine(d, path, md) ==
    IF Len(md) > 0
    THEN DictSet(d, LinePath(path, md), LineDigest(md))
    ELSE d

\* lines 116-120: the lines of one manifest, top to bottom
RECURSIVE RecordLines(_, _, _)
RecordLines(d, path, md_details) ==
    IF md_details = <<>> THEN d
    ELSE RecordLines(RecordLine(d, path, Head(md_details)), path,
                     Tail(md_details))

\* lines 111-120: the manifests in the order of check_files
RECURSIVE RecordManifests(_, _, _)
RecordManifests(d, files, text) ==
    IF files = <<>> THEN d
    ELSE RecordManifests(
            RecordLines(d, ManifestDir(ReplaceBackslash(Head(files))),
                        text[Head(files)]),
            Tail(files), text)

NoFile == [exists |-> FALSE, content |-> <<>>]
FileWith(c) == [exists |-> TRUE, content |-> c]

\* line 130 not yet executed in this call: the local name is unbound
UnboundHash == [bound |-> FALSE, fed |-> <<>>]
\* line 130: md5_hash = hashlib.md5()
NewHash     == [bound |-> TRUE, fed |-> <<>>]

\* Manifest paths: two in the directory m, one in the working directory
\* (as Path("").glob gives it: no directory part).
ManifestMK == <<"m", "/", "k">>
ManifestMJ == <<"m", "/", "j">>
ManifestKC == <<"k", "c">>

CheckFileLists == { <<ManifestMK>>, <<ManifestKC>>,
                    <<ManifestMK, ManifestMJ>>, <<ManifestMK, ManifestKC>> }

\* Relative target paths, one with a single space in it
RelF  == <<"f">>
RelSF == <<"s", " ", "f">>

\* Manifest lines: a digest, two spaces and a path; a digest in upper case;
\* a line with one space only; an empty line.
GoodLines == { HexDigest(c) \o TwoSpaces \o RelF : c \in Contents }
             \cup { HexDigest(<<>>) \o TwoSpaces \o RelSF }
UpperLine == Upper(HexDigest(<<"a">>)) \o TwoSpaces \o RelF
BadLine   == HexDigest(<<>>) \o <<" ">> \o RelF
Lines     == GoodLines \cup {UpperLine, BadLine, <<>>}

\* The files on disk: m/f with any content or missing, m/"s f" empty,
\* f in the working directory; every other path is missing.
DiskPaths == { <<"m", "/", "f">>, <<"m", "/", "s", " ", "f">>, <<"f">> }

Disks ==
    { [p \in DiskPaths |->
         CASE p = <<"m", "/", "f">> -> x
           [] p = <<"m", "/", "s", " ", "f">> -> FileWith(<<>>)
           [] OTHER -> FileWith(<<"a">>)] :
      x \in {NoFile} \cup { FileWith(c) : c \in Contents } }

\* what open() finds at a path
DiskFile(d, p) == IF p \in DOMAIN d THEN d[p] ELSE NoFile

\* the lines dealt to the manifests of a list: the first k to the first
\* manifest, the rest to the second
Dealt(files, lines, k) ==
    [f \in Range(files) |->
        IF f = files[1] THEN SubSeq(lines, 1, k)
        ELSE SubSeq(lines, k + 1, Len(lines))]

\* State at line 110: check_files holds the manifests found, each with its
\* lines; each target is a file with some content or is missing.
InitVerify ==
    /\ check_files \in CheckFileLists
    /\ \E lines \in SeqsUpTo(Lines, MaxTargets) :
         \E k \in 0..Len(lines) :
            /\ Len(check_files) = 1 => k = Len(lines)
            /\ manifest = Dealt(check_files, lines, k)
    /\ disk \in Disks
    /\ md_list = <<>>
    /\ vpc = "parse"
    /\ vi = 1
    /\ md5_hash = UnboundHash
    /\ results = <<>>

\* lines 110-120: every manifest is read and its lines recorded in md_list
ParseManifests ==
    /\ vpc = "parse"
    /\ md_list' = RecordManifests(<<>>, check_files, manifest)
    /\ vpc' = IF md_list' = <<>> THEN "done" ELSE "open"
    /\ UNCHANGED <<check_files, manifest, disk, vi, md5_hash, results>>
    /\ UNCHANGED <<engineVars, resolveVars>>

Target == DiskFile(disk, md_list[vi].file_path)

\* lines 128-134: open(file_path, "rb"); a missing file raises, the except of
\* line 138 logs the error, and md5_hash is not assigned
OpenTarget ==
    /\ vpc = "open"
    /\ IF Target.exists
       THEN /\ md5_hash' = NewHash
            /\ vpc' = "read"
       ELSE /\ vpc' = "caught"
            /\ UNCHANGED md5_hash
    /\ UNCHANGED <<check_files, manifest, md_list, disk, vi, results>>
    /\ UNCHANGED <<engineVars, resolveVars>>

\* lines 135-137: one chunk read and fed to the digest
ReadChunk ==
    /\ vpc = "read"
    /\ Len(md5_hash.fed) < Len(Target.content)
    /\ md5_hash' = [md5_hash EXCEPT
                      !.fed = Append(@, Target.content[Len(@) + 1])]
    /\ UNCHANGED <<check_files, manifest, md_list, disk, vpc, vi, results>>
    /\ UNCHANGED <<engineVars, resolveVars>>

\* lines 135, 138-139: f.read raises while data remains; the error is logged
ReadError ==
    /\ vpc = "read"
    /\ Len(md5_hash.fed) < Len(Target.content)
    /\ vpc' = "caught"
    /\ UNCHANGED <<check_files, manifest, md_list, disk, vi, md5_hash, results>>
    /\ UNCHANGED <<engineVars, resolveVars>>

\* line 135: f.read returns b"" and the loop ends
EndOfFile ==
    /\ vpc = "read"
    /\ Len(md5_hash.fed) = Len(Target.content)
    /\ vpc' = "hashed"
    /\ UNCHANGED <<check_files, manifest, md_list, disk, vi, md5_hash, results>>
    /\ UNCHANGED <<engineVars, resolveVars>>

LowerChar(c) ==
    CASE c = "A" -> "a" [] c = "B" -> "b" [] c = "D" -> "d" [] OTHER -> c
Lower(str) == [i \in 1..Len(str) |-> LowerChar(str[i])]

\* The expected digest folded to lower case before the comparison.
DigestsMatch_AnyCase(hexdigest, md_origin) == hexdigest = Lower(md_origin)

\* line 141: if md5_hash.hexdigest() == md_origin
DigestsMatch(hexdigest, md_origin) == hexdigest = md_origin

\* lines 141-147: md5_hash.hexdigest() is compared with md_origin and the
\* line is printed; an unbound md5_hash raises out of verify_md5
Compare ==
    /\ vpc \in {"hashed", "caught"}
    /\ IF ~md5_hash.bound
       THEN /\ vpc' = "crashed"
            /\ UNCHANGED <<vi, results>>
       ELSE /\ results' = Append(results,
                  [file_path |-> md_list[vi].file_path,
                   expected  |-> md_list[vi].md_origin,
                   actual    |-> HexDigest(md5_hash.fed),
                   ok        |-> DigestsMatch(HexDigest(md5_hash.fed),
                                              md_list[vi].md_origin),
                   io_error  |-> vpc = "caught"])
            /\ vi' = vi + 1
            /\ vpc' = IF vi = Len(md_list) THEN "done" ELSE "open"
    /\ UNCHANGED <<check_files, manifest, md_list, disk, md5_hash>>
    /\ UNCHANGED <<engineVars, resolveVars>>

NextVerify ==
    \/ ParseManifests
    \/ OpenTarget
    \/ ReadChunk
    \/ ReadError
    \/ EndOfFile
    \/ Compare

InitOfVerify == EngineIdle /\ ResolveIdle /\ InitVerify

SpecVerify == InitOfVerify /\ [][NextVerify]_vars

(***************************************************************************)
(* Properties of verify_md5 (specification SpecVerify)                     *)
(***************************************************************************)
\* the value reported in place of a digest that could not be computed
Sentinel == <<"unreadable">>

\* C10 (as claimed): an I/O error on a target never aborts the pass; the
\* target is reported as not matched with a sentinel for its digest, and
\* every target is reported by the end.
C10_ReadErrorContained ==
    /\ vpc # "crashed"
    /\ \A k \in 1..Len(results) :
          results[k].io_error => ~results[k].ok /\ results[k].actual = Sentinel
    /\ vpc = "done" => Len(results) = Len(md_list)

\* ---- what the manifests say, read independently of the parsing code ----
SeparatorAt(md, i) == i >= 1 /\ i < Len(md) /\ md[i] = " " /\ md[i + 1] = " "
WellFormed(md) == \E i \in 1..Len(md) : SeparatorAt(md, i)
LastSeparator(md) ==
    CHOOSE i \in 1..Len(md) :
        SeparatorAt(md, i) /\ \A j \in (i + 1)..Len(md) : ~SeparatorAt(md, j)
TextBefore(md) == SubSeq(md, 1, LastSeparator(md) - 1)
TextAfter(md)  == SubSeq(md, LastSeparator(md) + 2, Len(md))

\* the directory that contains a manifest; <<>> is the working directory
ContainingDir(file) ==
    IF \E i \in 1..Len(file) : file[i] = "/"
    THEN SubSeq(file, 1,
                (CHOOSE i \in 1..Len(file) :
                    file[i] = "/" /\ \A j \in (i + 1)..Len(file) : file[j] # "/") - 1)
    ELSE <<>>
ResolvedIn(dir, rel) == IF dir = <<>> THEN rel ELSE dir \o Slash \o rel

\* the (manifest, line number) positions of the well-formed lines
GoodPositions ==
    { pos \in UNION { {<<f, n>> : n \in 1..Len(manifest[f])} : f \in Range(check_files) } :
        WellFormed(manifest[pos[1]][pos[2]]) }
LineAt(pos)   == manifest[pos[1]][pos[2]]
TargetOf(pos) == ResolvedIn(ContainingDir(pos[1]), TextAfter(LineAt(pos)))

VerifyOver == vpc \in {"done", "crashed"}

\* C11 (as claimed): round trip.  For a file F that exists and a manifest line
\* "digest  path of F relative to the manifest" (the only line for F), once
\* verify_md5 is over F has been reported, with the manifest's digest as the
\* expected one and the digest of F's present content as the actual one, and
\* as OK exactly when the two are equal.
C11_RoundTrip ==
    VerifyOver =>
        \A pos \in GoodPositions :
            (/\ DiskFile(disk, TargetOf(pos)).exists
             /\ \A other \in GoodPositions \ {pos} : TargetOf(other) # TargetOf(pos))
            => \E k \in 1..Len(results) :
                 /\ results[k].file_path = TargetOf(pos)
                 /\ results[k].expected = TextBefore(LineAt(pos))
                 /\ ~results[k].io_error =>
                      /\ results[k].actual =
                           HexDigest(DiskFile(disk, TargetOf(pos)).content)
                      /\ results[k].ok <=> (results[k].expected = results[k].actual)

\* C12 (as claimed): every well-formed line yields a record whose target is
\* the text after the last two-space separator resolved against the
\* directory containing the manifest, and whose digest is the text before
\* that separator (of this line, or of another line for the same target).
C12_LineParsing ==
    vpc # "parse" =>
        \A pos \in GoodPositions :
            \E i \in 1..Len(md_list) :
                /\ md_list[i].file_path = TargetOf(pos)
                /\ md_list[i].md_origin \in
                     { TextBefore(LineAt(other)) :
                         other \in { o \in GoodPositions : TargetOf(o) = TargetOf(pos) } }

\* the records of every non-empty line, in processing order
RECURSIVE LineRecords(_, _)
LineRecords(path, md_details) ==
    IF md_details = <<>> THEN <<>>
    ELSE (IF Len(Head(md_details)) > 0
          THEN << [file_path |-> LinePath(path, Head(md_details)),
                   md_origin |-> LineDigest(Head(md_details))] >>
          ELSE <<>>) \o LineRecords(path, Tail(md_details))

RECURSIVE AllRecordsOf(_)
AllRecordsOf(files) ==
    IF files = <<>> THEN <<>>
    ELSE LineRecords(ManifestDir(ReplaceBackslash(Head(files))),
                     manifest[Head(files)]) \o AllRecordsOf(Tail(files))

AllRecords == AllRecordsOf(check_files)

LastRecordFor(path) ==
    AllRecords[CHOOSE k \in 1..Len(AllRecords) :
                  /\ AllRecords[k].file_path = path
                  /\ \A j \in (k + 1)..Len(AllRecords) :
                        AllRecords[j].file_path # path]

C16_CaseInsensitive ==
    \A k \in 1..Len(results) :
        (~results[k].io_error /\ Lower(results[k].expected) = results[k].actual)
            => results[k].ok

\* C16 (amended): the comparison is exact.  A target is reported OK exactly
\* when the manifest's digest text equals the lower-case hexdigest character
\* for character; a manifest digest in upper or mixed case that denotes the
\* same value is reported as a mismatch.
C16_ExactComparison ==
    \A k \in 1..Len(results) :
        /\ results[k].ok <=> (results[k].expected = results[k].actual)
        /\ results[k].actual = Lower(results[k].actual)
        /\ (results[k].expected # Lower(results[k].expected)) => ~results[k].ok

\* C16 witness: a file whose digest the manifest gives in upper case was
\* hashed without error and reported as a mismatch.
C16_Witness ==
    \E k \in 1..Len(results) :
        /\ ~results[k].io_error
        /\ results[k].expected # results[k].actual
        /\ Lower(results[k].expected) = results[k].actual
        /\ ~results[k].ok

\* C17 (as claimed): a non-empty line without the two-space separator yields
\* no record: every record of md_list, and every reported target, comes from
\* a well-formed line.
C17_MalformedSkipped ==
    vpc # "parse" =>
        /\ \A i \in 1..Len(md_list) :
              \E pos \in GoodPositions :
                 md_list[i].file_path =
                    LinePath(ManifestDir(ReplaceBackslash(pos[1])), LineAt(pos))
        /\ \A k \in 1..Len(results) :
              \E pos \in GoodPositions :
                 results[k].file_path =
                    LinePath(ManifestDir(ReplaceBackslash(pos[1])), LineAt(pos))

(***************************************************************************)
(* main_prompt lines 249-250: the download batch, then verify_md5          *)
(***************************************************************************)
\* the manifest lines and disks of the run after a batch: one manifest in m
\* with a line for m/f, which the batch has left on disk
BatchLines == { HexDigest(c) \o TwoSpaces \o RelF : c \in Contents }
BatchDisks == { d \in Disks : d[<<"m", "/", "f">>].exists }

\* line 250: verify_md5(file_info = downloaded_files), reached when
\* download_files has returned
StartVerify ==
    /\ mainpc = "returned"
    /\ vpc = "idle"
    /\ check_files' = <<ManifestMK>>
    /\ \E md \in BatchLines : manifest' = [f \in {ManifestMK} |-> <<md>>]
    /\ disk' \in BatchDisks
    /\ md_list' = <<>>
    /\ vpc' = "parse"
    /\ vi' = 1
    /\ md5_hash' = UnboundHash
    /\ results' = <<>>
    /\ UNCHANGED <<engineVars, resolveVars>>

NextMain ==
    \/ \E t \in file_list : Begin(t)
    \/ \E t \in file_list : Respond(t)
    \/ \E t \in file_list : OpenFile(t)
    \/ \E t \in file_list : Chunk(t)
    \/ \E t \in file_list : EndOfBody(t)
    \/ \E t \in file_list : Finish(t)
    \/ \E t \in file_list : Raise(t)
    \/ GatherRaise
    \/ Return
    \/ StartVerify
    \/ ParseManifests
    \/ OpenTarget
    \/ ReadChunk
    \/ ReadError
    \/ EndOfFile
    \/ Compare

SpecMain == Init /\ [][NextMain]_vars

\* C19: verify_md5 is started only after download_files has returned
\* normally, and then no task of the batch is Queued or InProgress.
C19_VerifyAfterBatch ==
    vpc # "idle" =>
        /\ mainpc = "returned"
        /\ \A t \in file_list : Status(t) \in Terminal

\* C19 witness: verify_md5 is hashing a file after a batch of two tasks, one
\* Finished and one Failed.
C19_Witness ==
    /\ vpc = "read"
    /\ \E t, u \in file_list : Status(t) = "Finished" /\ Status(u) = "Failed"

====
